---- MODULE Spec2Model ----
(***************************************************************************)
(* Model of token_runtime_id/runtime_id.py: the runtime_id decorator, the  *)
(* two context variables it installs and restores, the accessors           *)
(* get_runtime_id / require_runtime_id and the logging filter.             *)
(*                                                                         *)
(* Strings are sequences of one-character strings.  Python values carry    *)
(* their type, so that the isinstance checks of the validation are         *)
(* computed and not assumed.                                               *)
(***************************************************************************)
EXTENDS Integers, Sequences, FiniteSets, TLC

VARIABLES guards, pid, store, stack, exc, started, base, last, log

vars == <<guards, pid, store, stack, exc, started, base, last, log>>

----------------------------------------------------------------------------
(* Bounds *)

\* the largest max_depth a guard is configured with
MaxDepth == 2
\* the deepest call stack of one context (coroutine bodies install no scope,
\* so the depth check alone does not bound the stack)
MaxStack == 2

Ctx == {1, 2}
Slot == {1, 2}

----------------------------------------------------------------------------
(* Python values *)

PyNone == [t |-> "none", n |-> 0, b |-> FALSE, s |-> <<>>]
PyInt(i) == [t |-> "int", n |-> i, b |-> FALSE, s |-> <<>>]
PyBool(x) == [t |-> "bool", n |-> 0, b |-> x, s |-> <<>>]
PyStr(x) == [t |-> "str", n |-> 0, b |-> FALSE, s |-> x]
\* the state of a ContextVar that was never set in a context (Token.MISSING)
Missing == [t |-> "missing", n |-> 0, b |-> FALSE, s |-> <<>>]

\* isinstance(v, int): bool is a subclass of int
IsInstanceInt(v) == v.t \in {"int", "bool"}
IsInstanceStr(v) == v.t = "str"
IsInstanceBool(v) == v.t = "bool"
\* the integer an int (or bool) compares and counts as
IntOf(v) == IF v.t = "bool" THEN (IF v.b THEN 1 ELSE 0) ELSE v.n
\* truthiness, as in "if prefix:"
Truthy(v) ==
    CASE v.t = "none" -> FALSE
      [] v.t = "bool" -> v.b
      [] v.t = "int" -> v.n # 0
      [] v.t = "str" -> Len(v.s) > 0
      [] OTHER -> TRUE

Range(f) == {f[i] : i \in DOMAIN f}

Digit(d) == <<"0", "1", "2", "3", "4", "5", "6", "7", "8", "9">>[d + 1]

RECURSIVE DecStr(_)
\* str(n) of a non-negative integer
DecStr(n) == IF n < 10 THEN <<Digit(n)>> ELSE DecStr(n \div 10) \o <<Digit(n % 10)>>

\* the process ids the host may give the process
PidInputs == {42}

----------------------------------------------------------------------------
(* Configuration and its validation *)

Config(length, prefix_process_id, prefix, characters, max_depth, sep) ==
    [length |-> length, prefix_process_id |-> prefix_process_id, prefix |-> prefix,
     characters |-> characters, max_depth |-> max_depth, sep |-> sep]

BaseConfig ==
    Config(PyInt(1), PyBool(FALSE), PyNone, PyStr(<<"a", "b">>), PyInt(MaxDepth), PyStr(<<":">>))

LengthInputs == {PyInt(0), PyInt(-1), PyInt(2), PyBool(TRUE), PyStr(<<"a">>), PyNone}
FlagInputs == {PyBool(TRUE), PyStr(<<"a">>), PyInt(1), PyNone}
PrefixInputs == {PyStr(<<"p">>), PyStr(<<>>), PyInt(1)}
CharactersInputs == {PyStr(<<>>), PyStr(<<"b">>), PyNone, PyInt(1)}
MaxDepthInputs == {PyInt(0), PyInt(-1), PyInt(MaxDepth - 1), PyStr(<<"a">>), PyNone}
SepInputs == {PyStr(<<>>), PyStr(<<"-">>), PyNone}

\* the configurations wrapping is tried with: the base one, every one that
\* differs from it in one option, and one with both prefixes
ConfigInputs ==
    {BaseConfig}
    \cup {[BaseConfig EXCEPT !.length = v] : v \in LengthInputs}
    \cup {[BaseConfig EXCEPT !.prefix_process_id = v] : v \in FlagInputs}
    \cup {[BaseConfig EXCEPT !.prefix = v] : v \in PrefixInputs}
    \cup {[BaseConfig EXCEPT !.characters = v] : v \in CharactersInputs}
    \cup {[BaseConfig EXCEPT !.max_depth = v] : v \in MaxDepthInputs}
    \cup {[BaseConfig EXCEPT !.sep = v] : v \in SepInputs}
    \cup {[BaseConfig EXCEPT !.prefix_process_id = PyBool(TRUE), !.prefix = PyStr(<<"p">>)]}

\* the checks without the one of the static prefix
Validate_NoPrefixCheck(cfg) ==
    CASE ~IsInstanceInt(cfg.length) \/ IntOf(cfg.length) <= 0 -> "length"
      [] ~IsInstanceInt(cfg.max_depth) \/ IntOf(cfg.max_depth) <= 0 -> "max_depth"
      [] ~IsInstanceStr(cfg.characters) \/ Len(cfg.characters.s) < 1 -> "characters"
      [] ~IsInstanceStr(cfg.sep) \/ Len(cfg.sep.s) < 1 -> "sep"
      [] ~IsInstanceBool(cfg.prefix_process_id) -> "prefix_process_id"
      [] OTHER -> "ok"

\* the checks of runtime_id, in their order; the result names the option
\* the ValueError is about
Validate(cfg) ==
    CASE ~IsInstanceInt(cfg.length) \/ IntOf(cfg.length) <= 0 -> "length"
      [] ~IsInstanceInt(cfg.max_depth) \/ IntOf(cfg.max_depth) <= 0 -> "max_depth"
      [] ~IsInstanceStr(cfg.characters) \/ Len(cfg.characters.s) < 1 -> "characters"
      [] ~IsInstanceStr(cfg.sep) \/ Len(cfg.sep.s) < 1 -> "sep"
      [] ~IsInstanceBool(cfg.prefix_process_id) -> "prefix_process_id"
      [] cfg.prefix # PyNone /\ (~IsInstanceStr(cfg.prefix) \/ Len(cfg.prefix.s) < 1) -> "prefix"
      [] OTHER -> "ok"

NoGuard == [wrapped |-> FALSE, cfg |-> BaseConfig, async |-> FALSE]

----------------------------------------------------------------------------
(* Errors *)

Error(type, origin, what, max_depth, rid, depth) ==
    [type |-> type, origin |-> origin, what |-> what,
     max_depth |-> max_depth, rid |-> rid, depth |-> depth]

NoError == Error("none", "none", "", 0, <<>>, 0)
\* ValueError('<option> must be ...') of runtime_id
InvalidConfiguration(option) == Error("ValueError", "wrap", option, 0, <<>>, 0)
\* RuntimeIdException("Max depth of {max_depth} is reached. Current id {rid}, depth {depth}")
DepthExceeded(max_depth, rid, depth) ==
    Error("RuntimeIdException", "guard", "max_depth", max_depth, rid, depth)
\* RuntimeIdException('RuntimeId is required but it was not set.')
NotSet == Error("RuntimeIdException", "accessor", "not_set", 0, <<>>, 0)
\* the errors the wrapped work raises by itself
WorkErrors ==
    {Error("ValueError", "work", "Test error", 0, <<>>, 0),
     Error("KeyError", "work", "other", 0, <<>>, 0)}

----------------------------------------------------------------------------
(* The context variables: one cell per variable and context *)

\* ContextVar.get(): the default when the variable is not set in the context
CtxVarGet(cell, default) == IF cell = Missing THEN default ELSE cell

\* a set that writes one cell shared by all contexts
CtxVarSet_Global(st, c, var, value) == [d \in DOMAIN st |-> [st[d] EXCEPT ![var] = value]]

\* ContextVar.set(value) in context c; the token is the cell's old content
CtxVarSet(st, c, var, value) == [st EXCEPT ![c][var] = value]

\* a reset that clears the variable instead of restoring it
CtxVarReset_Clear(st, c, var, token) == [st EXCEPT ![c][var] = Missing]

\* a reset that leaves the variable as it is
CtxVarReset_Keep(st, c, var, token) == st

\* ContextVar.reset(token) in context c
CtxVarReset(st, c, var, token) == [st EXCEPT ![c][var] = token]

\* _RUNTIME_ID_CTX.get(), default None
get_runtime_id(c) == CtxVarGet(store[c].id, PyNone)

\* _RUNTIME_DEPTH_CTX.get(), default 0
get_runtime_depth(c) == CtxVarGet(store[c].depth, PyInt(0))

\* an accessor that returns what it read without raising
require_runtime_id_NoRaise(c) == [err |-> NoError, value |-> get_runtime_id(c)]

\* what require_runtime_id does: the error it raises, or NoError and the id
require_runtime_id(c) ==
    LET rid == get_runtime_id(c)
    IN  IF rid = PyNone THEN [err |-> NotSet, value |-> PyNone]
        ELSE [err |-> NoError, value |-> rid]

EmptyCells == [id |-> Missing, depth |-> Missing]

----------------------------------------------------------------------------
(* The wrapper's pure parts *)

\* ''.join(random.choices(characters, k=length)): every string it can give
get_random_string(length, characters) == [1..length -> Range(characters)]

\* the root prefixes in the other order
RootPrefix_PrefixFirst(cfg, p) ==
    (IF Truthy(cfg.prefix) THEN cfg.prefix.s \o cfg.sep.s ELSE <<>>)
    \o (IF Truthy(cfg.prefix_process_id) THEN DecStr(p) \o cfg.sep.s ELSE <<>>)

\* the root branch: rid = "" + (pid + sep) + (prefix + sep)
RootPrefix(cfg, p) ==
    (IF Truthy(cfg.prefix_process_id) THEN DecStr(p) \o cfg.sep.s ELSE <<>>)
    \o (IF Truthy(cfg.prefix) THEN cfg.prefix.s \o cfg.sep.s ELSE <<>>)

\* a nested branch that adds the static prefix too
NestedPrefix_Prefixed(rid, cfg) ==
    rid \o cfg.sep.s \o (IF Truthy(cfg.prefix) THEN cfg.prefix.s \o cfg.sep.s ELSE <<>>)

\* the nested branch: rid += sep
NestedPrefix(rid, cfg) == rid \o cfg.sep.s

\* a check that refuses one scope early
DepthRefused_Early(depth, max_depth) == depth + 1 >= max_depth

\* the depth check with > for >=
DepthRefused_OffByOne(depth, max_depth) == depth > max_depth

\* if depth >= max_depth: raise
DepthRefused(depth, max_depth) == depth >= max_depth

\* a wrapper that installs the depth it read
InstalledDepth_Same(depth) == depth

\* a wrapper that counts every scope twice
InstalledDepth_Twice(depth) == depth + 2

\* the depth installed: _RUNTIME_DEPTH_CTX.set(depth + 1)
InstalledDepth(depth) == depth + 1

----------------------------------------------------------------------------
(* Call stacks *)

NoOutcome == [kind |-> "none", err |-> NoError]

\* a call without arguments: sample_function()
NoArgs == <<>>

\* the arguments of function_with_args(42, "test"), the string shortened
ArgInputs == {<<PyInt(42), PyStr(<<"t">>)>>}

\* what a call gives back: nothing yet, the tuple the work returns, or the
\* coroutine object of an async function
Value(t, args, rid) == [t |-> t, args |-> args, rid |-> rid]

NoValue == Value("none", NoArgs, PyNone)

\* no call of the work has ended yet
NoKept == [some |-> FALSE, rid |-> <<>>, depth |-> 0, raised |-> FALSE]

\* one invocation of a wrapper: its guard, the line it is at, its locals
\* rid, depth, token, depth_token, how the method ended, and the content of
\* the context at the call and the scopes active at the call; the arguments
\* of the call, the arguments the method got and how often it was called,
\* what the method returned, and what its work noted of the last call it made
Frame(g, rid, depth, c) ==
    [guard |-> g, pc |-> "set_id", rid |-> rid, depth |-> depth,
     token |-> Missing, depth_token |-> Missing, outcome |-> NoOutcome,
     pre |-> store[c],
     args |-> NoArgs, got |-> NoArgs, calls |-> 0, value |-> NoValue, kept |-> NoKept]

\* no invocation
NoFrame == [guard |-> 0, pc |-> "none"]

Top(c) == stack[c][Len(stack[c])]

\* where the innermost invocation of c is; "toplevel" outside every invocation
TopPc(c) == IF stack[c] = <<>> THEN "toplevel" ELSE Top(c).pc

Pop(s) == SubSeq(s, 1, Len(s) - 1)

SetTop(c, f) == [stack EXCEPT ![c] = [@ EXCEPT ![Len(@)] = f]]

\* the frames of c whose method is executing between install and restore
WorkFrames(c) == {i \in DOMAIN stack[c] : stack[c][i].pc = "work"}

\* the scopes active in c: those inherited at spawn time and its own
ActiveScopes(c) == base[c].scopes + Cardinality(WorkFrames(c))

\* application code of c is executing: top-level code, the wrapped work of
\* the innermost invocation, or the body of an awaited coroutine
CanRun(c) ==
    /\ started[c]
    /\ exc[c] = NoError
    /\ TopPc(c) \in {"toplevel", "work", "body"}

\* an error is in flight in application code of c
Raised(c) ==
    /\ started[c]
    /\ exc[c] # NoError
    /\ TopPc(c) \in {"toplevel", "work", "body"}

\* what the last step of a context was, for the step after it to be told
\* from any other
Last(kind, guard, cfg, pre, scopes, raised) ==
    [kind |-> kind, guard |-> guard, cfg |-> cfg, pre |-> pre, scopes |-> scopes,
     raised |-> raised, frame |-> NoFrame, value |-> NoValue]

NoLast == Last("none", 0, BaseConfig, EmptyCells, 0, NoError)

Forget(c) == last' = [last EXCEPT ![c] = NoLast]

----------------------------------------------------------------------------
(* RuntimeIdLogFilter and the log record it is given *)

Letters ==
    {"a", "b", "c", "d", "e", "f", "g", "h", "i", "j", "k", "l", "m", "n", "o", "p", "q",
     "r", "s", "t", "u", "v", "w", "x", "y", "z"}

Digits == {Digit(d) : d \in 0..9}

\* str.isidentifier() on the characters used here
IsIdentifier(w) ==
    /\ Len(w) > 0
    /\ w[1] \in Letters \cup {"_"}
    /\ \A i \in DOMAIN w : w[i] \in Letters \cup Digits \cup {"_"}

\* the default of record_attr_name
DefaultAttrName == <<"r", "u", "n", "t", "i", "m", "e", "_", "i", "d">>

\* the names a filter is constructed with: the default, "rid", "msg", "",
\* "r d", "1rid", and a name that is no string
AttrNameInputs ==
    {PyStr(DefaultAttrName), PyStr(<<"r", "i", "d">>), PyStr(<<"m", "s", "g">>),
     PyStr(<<>>), PyStr(<<"r", " ", "d">>), PyStr(<<"1", "r", "i", "d">>), PyNone}

\* the attribute names a record can get here
AttrNames == {v.s : v \in {x \in AttrNameInputs : x.t = "str" /\ IsIdentifier(x.s)}}

\* a name the record has no attribute of
NoAttr == [t |-> "noattr", n |-> 0, b |-> FALSE, s |-> <<>>]

\* logging.LogRecord(..., msg="test message", ...), its message shortened
NewRecordAttrs == [a \in AttrNames |-> IF a = <<"m", "s", "g">> THEN PyStr(<<"t">>) ELSE NoAttr]

\* no filter constructed, a fresh record, nothing filtered
NoLog == [made |-> FALSE, name |-> DefaultAttrName, attrs |-> NewRecordAttrs, result |-> "none"]

\* RuntimeIdLogFilter(record_attr_name), lines 26-40
NewLogFilter(c, name) ==
    /\ CanRun(c)
    /\ ~log.made
    /\ IF ~IsInstanceStr(name) \/ ~IsIdentifier(name.s)
       THEN /\ exc' = [exc EXCEPT ![c] =
                          Error("ValueError", "filter", "record_attr_name", 0, <<>>, 0)]
            /\ log' = log
       ELSE /\ exc' = exc
            /\ log' = [log EXCEPT !.made = TRUE, !.name = name.s]
    /\ Forget(c)
    /\ UNCHANGED <<guards, pid, store, stack, started, base>>

\* the application makes a new record
NewRecord(c) ==
    /\ CanRun(c)
    /\ log.attrs # NewRecordAttrs \/ log.result # "none"
    /\ log' = [log EXCEPT !.attrs = NewRecordAttrs, !.result = "none"]
    /\ Forget(c)
    /\ UNCHANGED <<guards, pid, store, stack, exc, started, base>>

\* a filter that drops the records made outside every scope
filter_DropUnscoped(attrs, name, c) ==
    [attrs |-> [attrs EXCEPT ![name] = get_runtime_id(c)],
     result |-> IF get_runtime_id(c) = PyNone THEN "drop" ELSE "keep"]

\* lines 42-44: setattr(record, self._record_attr_name, get_runtime_id());
\* return True
filter(attrs, name, c) ==
    [attrs |-> [attrs EXCEPT ![name] = get_runtime_id(c)], result |-> "keep"]

\* the logging framework hands the record to the filter, in context c
Filter(c) ==
    /\ CanRun(c)
    /\ log.made
    /\ log' = [log EXCEPT !.attrs = filter(log.attrs, log.name, c).attrs,
                          !.result = filter(log.attrs, log.name, c).result]
    /\ last' = [last EXCEPT ![c] =
                   Last("filter", 0, BaseConfig, store[c], ActiveScopes(c), NoError)]
    /\ UNCHANGED <<guards, pid, store, stack, exc, started, base>>

----------------------------------------------------------------------------
(* Initial state: nothing wrapped, the main context running, no scope *)

Init ==
    /\ guards = [s \in Slot |-> NoGuard]
    /\ pid \in PidInputs
    /\ store = [c \in Ctx |-> EmptyCells]
    /\ stack = [c \in Ctx |-> <<>>]
    /\ exc = [c \in Ctx |-> NoError]
    /\ started = [c \in Ctx |-> c = 1]
    /\ base = [c \in Ctx |-> [cells |-> EmptyCells, scopes |-> 0]]
    /\ last = [c \in Ctx |-> NoLast]
    /\ log = NoLog

----------------------------------------------------------------------------
(* runtime_id applied to a method with its options: validation, then the   *)
(* wrapper.  Called with options only (lines 106-115) it returns a partial  *)
(* application of itself and validates when that is applied to the method.  *)

Wrap(c, s, cfg, isAsync) ==
    /\ CanRun(c)
    /\ ~guards[s].wrapped
    /\ LET v == Validate(cfg)
       IN  IF v = "ok"
           THEN /\ guards' = [guards EXCEPT ![s] = [wrapped |-> TRUE, cfg |-> cfg, async |-> isAsync]]
                /\ exc' = exc
                /\ Forget(c)
           ELSE /\ guards' = guards
                /\ exc' = [exc EXCEPT ![c] = InvalidConfiguration(v)]
                /\ last' = [last EXCEPT ![c] =
                               Last("wrap", s, cfg, store[c], ActiveScopes(c), NoError)]
    /\ UNCHANGED <<pid, store, stack, started, base, log>>

----------------------------------------------------------------------------
(* The wrapper that runtime_id returns, line by line *)

\* lines 132-150: read the context, refuse or derive the identifier
WrapperEnter(c, g, args) ==
    /\ CanRun(c)
    /\ guards[g].wrapped
    /\ LET cfg == guards[g].cfg
           rid == get_runtime_id(c)
           depth == IntOf(get_runtime_depth(c))
       IN  IF rid = PyNone
           THEN \E seg \in get_random_string(IntOf(cfg.length), cfg.characters.s) :
                    /\ Len(stack[c]) < MaxStack
                    /\ stack' = [stack EXCEPT ![c] =
                                    Append(@, [Frame(g, RootPrefix(cfg, pid) \o seg, 0, c)
                                                 EXCEPT !.args = args])]
                    /\ exc' = exc
                    /\ Forget(c)
           ELSE IF DepthRefused(depth, IntOf(cfg.max_depth))
                THEN /\ exc' = [exc EXCEPT ![c] =
                                   DepthExceeded(IntOf(cfg.max_depth), rid.s, depth)]
                     /\ stack' = stack
                     /\ last' = [last EXCEPT ![c] =
                                    Last("refused", g, BaseConfig, store[c], ActiveScopes(c), NoError)]
                ELSE \E seg \in get_random_string(IntOf(cfg.length), cfg.characters.s) :
                    /\ Len(stack[c]) < MaxStack
                    /\ stack' = [stack EXCEPT ![c] =
                                    Append(@, [Frame(g, NestedPrefix(rid.s, cfg) \o seg, depth, c)
                                                 EXCEPT !.args = args])]
                    /\ exc' = exc
                    /\ Forget(c)
    /\ UNCHANGED <<guards, pid, store, started, base, log>>

\* line 152: token = _RUNTIME_ID_CTX.set(rid)
SetId(c) ==
    /\ started[c] /\ TopPc(c) = "set_id"
    /\ store' = CtxVarSet(store, c, "id", PyStr(Top(c).rid))
    /\ stack' = SetTop(c, [Top(c) EXCEPT !.pc = "set_depth", !.token = store[c].id])
    /\ Forget(c)
    /\ UNCHANGED <<guards, pid, exc, started, base, log>>

\* line 153: depth_token = _RUNTIME_DEPTH_CTX.set(depth + 1)
SetDepth(c) ==
    /\ started[c] /\ TopPc(c) = "set_depth"
    /\ store' = CtxVarSet(store, c, "depth", PyInt(InstalledDepth(Top(c).depth)))
    /\ stack' = SetTop(c, [Top(c) EXCEPT !.pc = "call", !.depth_token = store[c].depth])
    /\ Forget(c)
    /\ UNCHANGED <<guards, pid, exc, started, base, log>>

\* a wrapper that calls the method without the arguments
PassedArgs_Dropped(args) == NoArgs

\* line 156: method is called with the wrapper's own arguments
PassedArgs(args) == args

\* line 156: the call of method.  A plain function starts executing; an
\* async function returns its coroutine object without executing any of it
InvokeMethod(c) ==
    /\ started[c] /\ TopPc(c) = "call"
    /\ IF guards[Top(c).guard].async
       THEN stack' = SetTop(c, [Top(c) EXCEPT !.pc = "reset_id",
                                              !.outcome = [kind |-> "coroutine", err |-> NoError],
                                              !.got = PassedArgs(Top(c).args),
                                              !.calls = @ + 1,
                                              !.value = Value("coroutine", PassedArgs(Top(c).args), PyNone)])
       ELSE stack' = SetTop(c, [Top(c) EXCEPT !.pc = "work",
                                              !.got = PassedArgs(Top(c).args),
                                              !.calls = @ + 1])
    /\ Forget(c)
    /\ UNCHANGED <<guards, pid, store, exc, started, base, log>>

\* a finally block that swallows the error
Delivered_Swallow(outcome) == NoError

\* what leaves the try/finally of lines 155-159 once both resets are done:
\* the error the method raised, or none when it returned
Delivered(outcome) == IF outcome.kind = "raise" THEN outcome.err ELSE NoError

\* line 156: the wrapper returns what the method returned
Returned(f) == IF f.outcome.kind \in {"return", "coroutine"} THEN f.value ELSE NoValue

\* a finally block that leaves the identifier installed
ResetId_Skip(c) ==
    /\ started[c] /\ TopPc(c) = "reset_id"
    /\ stack' = SetTop(c, [Top(c) EXCEPT !.pc = "reset_depth"])
    /\ Forget(c)
    /\ UNCHANGED <<guards, pid, store, exc, started, base, log>>

\* a finally block that resets the depth first
ResetId_DepthFirst(c) ==
    /\ started[c] /\ TopPc(c) = "reset_id"
    /\ store' = CtxVarReset(store, c, "depth", Top(c).depth_token)
    /\ stack' = SetTop(c, [Top(c) EXCEPT !.pc = "reset_depth"])
    /\ Forget(c)
    /\ UNCHANGED <<guards, pid, exc, started, base, log>>

\* line 158: _RUNTIME_ID_CTX.reset(token)
ResetId(c) ==
    /\ started[c] /\ TopPc(c) = "reset_id"
    /\ store' = CtxVarReset(store, c, "id", Top(c).token)
    /\ stack' = SetTop(c, [Top(c) EXCEPT !.pc = "reset_depth"])
    /\ Forget(c)
    /\ UNCHANGED <<guards, pid, exc, started, base, log>>

\* line 159: _RUNTIME_DEPTH_CTX.reset(depth_token), then the wrapper returns
\* or lets the error go on.  A returned coroutine object is awaited by the
\* caller at once (rid = await sample_function()): its body starts here
ResetDepth(c) ==
    /\ started[c] /\ TopPc(c) = "reset_depth"
    /\ store' = CtxVarReset(store, c, "depth", Top(c).depth_token)
    /\ IF Top(c).outcome.kind = "coroutine"
       THEN /\ stack' = SetTop(c, [Top(c) EXCEPT !.pc = "body"])
            /\ exc' = exc
       ELSE /\ stack' = [stack EXCEPT ![c] = Pop(@)]
            /\ exc' = [exc EXCEPT ![c] = Delivered(Top(c).outcome)]
    /\ last' = [last EXCEPT ![c] =
                   [Last("exited", Top(c).guard, BaseConfig, Top(c).pre,
                         Cardinality(WorkFrames(c)), Top(c).outcome.err)
                    EXCEPT !.frame = Top(c), !.value = Returned(Top(c))]]
    /\ UNCHANGED <<guards, pid, started, base, log>>

----------------------------------------------------------------------------
(* The application code: the wrapped work and the code around it *)

\* the work, or the coroutine body, returns: return a, b, get_runtime_id()
WorkReturn(c) ==
    /\ CanRun(c) /\ stack[c] # <<>>
    /\ IF Top(c).pc = "work"
       THEN stack' = SetTop(c, [Top(c) EXCEPT !.pc = "reset_id",
                                              !.outcome = [kind |-> "return", err |-> NoError],
                                              !.value = Value("tuple", Top(c).got, get_runtime_id(c))])
       ELSE stack' = [stack EXCEPT ![c] = Pop(@)]
    /\ Forget(c)
    /\ UNCHANGED <<guards, pid, store, exc, started, base, log>>

\* the work, or the coroutine body, raises an error of its own
WorkRaise(c, e) ==
    /\ CanRun(c) /\ stack[c] # <<>>
    /\ IF Top(c).pc = "work"
       THEN /\ stack' = SetTop(c, [Top(c) EXCEPT !.pc = "reset_id",
                                                 !.outcome = [kind |-> "raise", err |-> e]])
            /\ exc' = exc
       ELSE /\ stack' = [stack EXCEPT ![c] = Pop(@)]
            /\ exc' = [exc EXCEPT ![c] = e]
    /\ Forget(c)
    /\ UNCHANGED <<guards, pid, store, started, base, log>>

\* an error raised by a call is not handled: it leaves the work too
Propagate(c) ==
    /\ Raised(c) /\ stack[c] # <<>>
    /\ IF Top(c).pc = "work"
       THEN /\ stack' = SetTop(c, [Top(c) EXCEPT !.pc = "reset_id",
                                                 !.outcome = [kind |-> "raise", err |-> exc[c]]])
            /\ exc' = [exc EXCEPT ![c] = NoError]
       ELSE /\ stack' = [stack EXCEPT ![c] = Pop(@)]
            /\ exc' = exc
    /\ Forget(c)
    /\ UNCHANGED <<guards, pid, store, started, base, log>>

\* an error raised by a call is handled (try/except, pytest.raises)
Catch(c) ==
    /\ Raised(c)
    /\ exc' = [exc EXCEPT ![c] = NoError]
    /\ Forget(c)
    /\ UNCHANGED <<guards, pid, store, stack, started, base, log>>

\* the work notes the identifier and the depth the call it just made ran
\* with, whether the call returned or raised
Keep(c) ==
    /\ started[c] /\ TopPc(c) = "work"
    /\ last[c].kind = "exited"
    /\ stack' = SetTop(c, [Top(c) EXCEPT !.kept = [some |-> TRUE, rid |-> last[c].frame.rid,
                                                   depth |-> last[c].frame.depth,
                                                   raised |-> last[c].raised # NoError]])
    /\ Forget(c)
    /\ UNCHANGED <<guards, pid, store, exc, started, base, log>>

\* the application calls require_runtime_id()
RequireRuntimeId(c) ==
    /\ CanRun(c)
    /\ exc' = [exc EXCEPT ![c] = require_runtime_id(c).err]
    /\ Forget(c)
    /\ UNCHANGED <<guards, pid, store, stack, started, base, log>>

----------------------------------------------------------------------------
(* Contexts *)

\* threading.Thread(...).start(): the new thread runs in an empty context
StartThread(c) ==
    /\ ~started[c]
    /\ started' = [started EXCEPT ![c] = TRUE]
    /\ store' = [store EXCEPT ![c] = EmptyCells]
    /\ base' = [base EXCEPT ![c] = [cells |-> EmptyCells, scopes |-> 0]]
    /\ UNCHANGED <<guards, pid, stack, exc, last, log>>

\* a spawn that gives the new context nothing of the parent's
SpawnTask_Empty(p, c) ==
    /\ CanRun(p)
    /\ ~started[c]
    /\ started' = [started EXCEPT ![c] = TRUE]
    /\ store' = [store EXCEPT ![c] = EmptyCells]
    /\ base' = [base EXCEPT ![c] = [cells |-> store[p], scopes |-> ActiveScopes(p)]]
    /\ UNCHANGED <<guards, pid, stack, exc, last, log>>

\* asyncio.create_task(...) / contextvars.copy_context().run(...) in p: the
\* new context is a copy of p's at that moment
SpawnTask(p, c) ==
    /\ CanRun(p)
    /\ ~started[c]
    /\ started' = [started EXCEPT ![c] = TRUE]
    /\ store' = [store EXCEPT ![c] = store[p]]
    /\ base' = [base EXCEPT ![c] = [cells |-> store[p], scopes |-> ActiveScopes(p)]]
    /\ UNCHANGED <<guards, pid, stack, exc, last, log>>

----------------------------------------------------------------------------
(* Specifications *)

\* what one context does
Step(c) ==
    \/ \E g \in Slot : WrapperEnter(c, g, NoArgs)
    \/ SetId(c)
    \/ SetDepth(c)
    \/ InvokeMethod(c)
    \/ ResetId(c)
    \/ ResetDepth(c)
    \/ WorkReturn(c)
    \/ \E e \in WorkErrors : WorkRaise(c, e)
    \/ Propagate(c)
    \/ Catch(c)
    \/ RequireRuntimeId(c)

\* the configurations the concurrent specification wraps
ConcConfigInputs == {BaseConfig, [BaseConfig EXCEPT !.prefix = PyStr(<<>>)]}

\* one context, every configuration
Next ==
    \/ \E s \in Slot, cfg \in ConfigInputs, isAsync \in BOOLEAN : Wrap(1, s, cfg, isAsync)
    \/ Step(1)

Spec == Init /\ [][Next]_vars

\* two contexts, the second a thread or a task spawned by the first; the
\* main context wraps a plain function and an async one
NextConc ==
    \/ \E cfg \in ConcConfigInputs : Wrap(1, 1, cfg, FALSE)
    \/ \E cfg \in ConcConfigInputs : Wrap(1, 2, cfg, TRUE)
    \/ \E c \in Ctx : Step(c)
    \/ StartThread(2)
    \/ SpawnTask(1, 2)

SpecConc == Init /\ [][NextConc]_vars

\* the configurations the call specification wraps
CallConfigInputs == {BaseConfig, [BaseConfig EXCEPT !.prefix = PyStr(<<"p">>)]}

\* one context whose calls carry arguments and whose work notes the calls it
\* made
NextCall ==
    \/ \E cfg \in CallConfigInputs : Wrap(1, 1, cfg, FALSE)
    \/ \E cfg \in CallConfigInputs, isAsync \in BOOLEAN : Wrap(1, 2, cfg, isAsync)
    \/ \E g \in Slot, args \in ArgInputs : WrapperEnter(1, g, args)
    \/ Step(1)
    \/ Keep(1)

SpecCall == Init /\ [][NextCall]_vars

\* the configurations the logging specification wraps
LogConfigInputs == {BaseConfig, [BaseConfig EXCEPT !.sep = PyStr(<<>>)]}

\* one context that wraps a plain function, constructs a filter and has
\* records filtered inside and outside scopes
NextLog ==
    \/ \E cfg \in LogConfigInputs : Wrap(1, 1, cfg, FALSE)
    \/ Step(1)
    \/ \E name \in AttrNameInputs : NewLogFilter(1, name)
    \/ NewRecord(1)
    \/ Filter(1)

SpecLog == Init /\ [][NextLog]_vars

----------------------------------------------------------------------------
(* Notions the properties are stated with *)

\* application code of c can read the context
Observable(c) == started[c] /\ TopPc(c) \in {"toplevel", "work", "body"}

Wrapped == {s \in Slot : guards[s].wrapped}

SetMax(S) == CHOOSE i \in S : \A j \in S : j <= i

\* the identifier of the innermost scope active in c: that of its innermost
\* invocation whose work executes, else the one inherited at spawn time
EnclosingId(c) ==
    IF WorkFrames(c) = {} THEN CtxVarGet(base[c].cells.id, PyNone)
    ELSE PyStr(stack[c][SetMax(WorkFrames(c))].rid)

\* every string of the given length over the given alphabet
Segments(length, alphabet) == {w \in [1..length -> Range(alphabet)] : TRUE}

IsPrefixOf(p, w) == Len(p) <= Len(w) /\ SubSeq(w, 1, Len(p)) = p

\* the content of the context as the accessors give it
Current(cells) == [id |-> CtxVarGet(cells.id, PyNone), depth |-> CtxVarGet(cells.depth, PyInt(0))]

----------------------------------------------------------------------------
(* Properties *)

\* C1: right after a guarded invocation, root or nested, whether its work
\* returned or raised, the current identifier and depth of the calling
\* context are what they were right before it; after a root invocation the
\* identifier is absent again
C1_StateRestoredAfterInvocation ==
    \A c \in Ctx :
        last[c].kind = "exited" =>
            /\ get_runtime_id(c) = Current(last[c].pre).id
            /\ get_runtime_depth(c) = Current(last[c].pre).depth
            /\ (last[c].pre.id = Missing => get_runtime_id(c) = PyNone)

\* a nested invocation whose work raised has just ended
C1_Witness ==
    \E c \in Ctx :
        /\ last[c].kind = "exited"
        /\ last[c].raised \in WorkErrors
        /\ last[c].pre.id # Missing

\* C2: the body of wrapped asynchronous work observes the identifier derived
\* for its invocation, also after the call has returned the deferred result
C2_AsyncBodyObservesDerivedId ==
    \A c \in Ctx :
        (started[c] /\ TopPc(c) = "body") => get_runtime_id(c) = PyStr(Top(c).rid)

\* C3: when all guards share max depth M, no more than M scopes are ever
\* entered in a chain, and an entry is refused, with DepthExceeded naming M,
\* only as the attempt to enter the (M+1)-th scope while the work of M scopes
\* executes
C3_DepthBound ==
    \A M \in 1..MaxDepth :
        (Wrapped # {} /\ \A s \in Wrapped : IntOf(guards[s].cfg.max_depth) = M) =>
            \A c \in Ctx :
                /\ base[c].scopes
                     + Cardinality({i \in DOMAIN stack[c] : stack[c][i].pc # "body"}) <= M
                /\ last[c].kind = "refused" =>
                       /\ last[c].scopes = M
                       /\ Cardinality(WorkFrames(c)) + base[c].scopes = M
                       /\ exc[c].type = "RuntimeIdException"
                       /\ exc[c].max_depth = M

\* with max depth MaxDepth everywhere, the work of MaxDepth nested scopes
\* executes and the next entry has just been refused
C3_Witness ==
    /\ Wrapped # {}
    /\ \A s \in Wrapped : IntOf(guards[s].cfg.max_depth) = MaxDepth
    /\ last[1].kind = "refused"
    /\ Cardinality(WorkFrames(1)) = MaxDepth

\* C4: a refused invocation does not invoke the work and installs nothing:
\* identifier and depth are as before the call and the enclosing scope goes
\* on with its own identifier
C4_RefusalInstallsNothing ==
    \A c \in Ctx :
        last[c].kind = "refused" =>
            /\ store[c] = last[c].pre
            /\ ActiveScopes(c) = last[c].scopes
            /\ TopPc(c) \in {"work", "body"}
            /\ get_runtime_id(c) = EnclosingId(c)
            /\ get_runtime_id(c) # PyNone

\* an entry has just been refused inside the work of a scope, and the error
\* is with that work
C4_Witness ==
    \E c \in Ctx :
        /\ last[c].kind = "refused"
        /\ exc[c] = DepthExceeded(exc[c].max_depth, Top(c).rid, exc[c].depth)
        /\ TopPc(c) = "work"

\* C5: the identifier of a nested invocation (one entered while an identifier
\* is set) is the enclosing scope's identifier, the separator and one new
\* segment; no process id or static prefix is inserted
C5_NestedIdExtendsParent ==
    \A c \in Ctx : \A i \in DOMAIN stack[c] :
        LET f == stack[c][i]
            cfg == guards[f.guard].cfg
            below == {j \in WorkFrames(c) : j < i}
            outer == IF below = {} THEN CtxVarGet(base[c].cells.id, PyNone)
                     ELSE PyStr(stack[c][SetMax(below)].rid)
        IN  f.pre.id # Missing =>
                /\ f.pre.id = outer
                /\ \E seg \in Segments(IntOf(cfg.length), cfg.characters.s) :
                       f.rid = outer.s \o cfg.sep.s \o seg
                /\ IsPrefixOf(outer.s \o cfg.sep.s, f.rid)
                /\ Len(f.rid) > Len(outer.s)
                /\ (i = Len(stack[c]) /\ f.pc = "work") => get_runtime_id(c) = PyStr(f.rid)

\* the work of a nested invocation executes whose guard has a static prefix
C5_Witness ==
    \E c \in Ctx :
        /\ TopPc(c) = "work"
        /\ Top(c).pre.id # Missing
        /\ guards[Top(c).guard].cfg.prefix # PyNone

\* the depth installed by the innermost scope active in c, else the
\* inherited one
EnclosingDepth(c) ==
    IF WorkFrames(c) = {} THEN CtxVarGet(base[c].cells.depth, PyInt(0))
    ELSE PyInt(InstalledDepth(stack[c][SetMax(WorkFrames(c))].depth))

\* C6: whatever the other context does, the identifier and depth a context
\* reads are those of its own innermost active scope, or its own copy of what
\* it inherited when it has none: never a value the other context installed
C6_ContextIsolation ==
    \A c \in Ctx :
        Observable(c) =>
            /\ get_runtime_id(c) = EnclosingId(c)
            /\ get_runtime_depth(c) = EnclosingDepth(c)

\* the work of a nested scope of the main context and the work of a root
\* scope of a thread that inherited nothing execute side by side, with
\* different identifiers
C6_Witness ==
    /\ started[2] /\ base[2].cells = EmptyCells
    /\ TopPc(1) = "work" /\ Len(stack[1]) = 2
    /\ TopPc(2) = "work" /\ Len(stack[2]) = 1
    /\ get_runtime_id(1) # get_runtime_id(2)
    /\ get_runtime_depth(1) # get_runtime_depth(2)

C8_OriginalErrorAfterRestore ==
    \A c \in Ctx :
        (last[c].kind = "exited" /\ last[c].raised # NoError) =>
            /\ exc[c] = last[c].raised
            /\ store[c] = last[c].pre

\* a root invocation whose work raised a KeyError has just ended
C8_Witness ==
    \E c \in Ctx :
        /\ last[c].kind = "exited"
        /\ last[c].raised.type = "KeyError"
        /\ exc[c].type = "KeyError"
        /\ stack[c] = <<>>

DigitValue(ch) == CHOOSE d \in 0..9 : Digit(d) = ch

RECURSIVE DecValue(_)
\* the number a string of decimal digits denotes
DecValue(w) ==
    IF w = <<>> THEN 0
    ELSE 10 * DecValue(SubSeq(w, 1, Len(w) - 1)) + DigitValue(w[Len(w)])

\* C9: the identifier of a root invocation is non-empty and is the decimal
\* process id and the separator exactly when the process-id prefix is
\* configured, then the static prefix and the separator when one is
\* configured, then one segment of the configured length over the alphabet
C9_RootIdComposition ==
    \A c \in Ctx : \A i \in DOMAIN stack[c] :
        LET f == stack[c][i]
            cfg == guards[f.guard].cfg
            pidPart == IF cfg.prefix_process_id = PyBool(TRUE)
                       THEN DecStr(pid) \o cfg.sep.s ELSE <<>>
            prefixPart == IF cfg.prefix # PyNone THEN cfg.prefix.s \o cfg.sep.s ELSE <<>>
        IN  f.pre.id = Missing =>
                /\ Len(f.rid) > 0
                /\ DecValue(DecStr(pid)) = pid
                /\ \E seg \in Segments(IntOf(cfg.length), cfg.characters.s) :
                       /\ Len(seg) = IntOf(cfg.length)
                       /\ \A k \in DOMAIN seg : seg[k] \in Range(cfg.characters.s)
                       /\ f.rid = pidPart \o prefixPart \o seg
                /\ (i = Len(stack[c]) /\ f.pc = "work") => get_runtime_id(c) = PyStr(f.rid)

\* the work of a root invocation executes whose guard has both prefixes
C9_Witness ==
    \E c \in Ctx :
        /\ TopPc(c) = "work"
        /\ Top(c).pre.id = Missing
        /\ guards[Top(c).guard].cfg.prefix_process_id = PyBool(TRUE)
        /\ guards[Top(c).guard].cfg.prefix # PyNone

\* Python's integers include the booleans (True is 1)
IsInteger(v) == v.t \in {"int", "bool"}

\* the constraint of each option
OptionOk(cfg, option) ==
    CASE option = "length" -> IsInteger(cfg.length) /\ IntOf(cfg.length) > 0
      [] option = "max_depth" -> IsInteger(cfg.max_depth) /\ IntOf(cfg.max_depth) > 0
      [] option = "characters" -> cfg.characters.t = "str" /\ cfg.characters.s # <<>>
      [] option = "sep" -> cfg.sep.t = "str" /\ cfg.sep.s # <<>>
      [] option = "prefix" -> cfg.prefix = PyNone \/ (cfg.prefix.t = "str" /\ cfg.prefix.s # <<>>)
      [] option = "prefix_process_id" -> cfg.prefix_process_id.t = "bool"
      [] OTHER -> FALSE

Options == {"length", "max_depth", "characters", "sep", "prefix", "prefix_process_id"}

\* C10: a configuration that violates a constraint never yields a wrapper:
\* wrapping fails with the ValueError about a violated option and leaves the
\* function unwrapped; the wrapper itself raises no such error
C10_InvalidConfigurationAtWrapTime ==
    /\ \A s \in Wrapped : \A o \in Options : OptionOk(guards[s].cfg, o)
    /\ \A c \in Ctx :
           /\ last[c].kind = "wrap" =>
                  /\ \E o \in Options : ~OptionOk(last[c].cfg, o)
                  /\ exc[c].type = "ValueError" /\ exc[c].origin = "wrap"
                  /\ exc[c].what \in Options
                  /\ ~OptionOk(last[c].cfg, exc[c].what)
                  /\ ~guards[last[c].guard].wrapped
           /\ exc[c].origin = "guard" => exc[c].type = "RuntimeIdException"
           /\ \A i \in DOMAIN stack[c] :
                  stack[c][i].outcome.err.origin = "guard" =>
                      stack[c][i].outcome.err.type = "RuntimeIdException"

\* wrapping with an empty static prefix has just failed
C10_Witness ==
    \E c \in Ctx :
        /\ last[c].kind = "wrap"
        /\ last[c].cfg.prefix = PyStr(<<>>)
        /\ exc[c] = InvalidConfiguration("prefix")

\* C11: whenever the logging filter is given a record it answers keep and
\* sets the configured attribute of the record to the identifier current in
\* the filtering context at that moment: None outside every scope, the
\* identifier of the innermost active scope inside one
C11_FilterStampsCurrentId ==
    \A c \in Ctx :
        last[c].kind = "filter" =>
            /\ log.result = "keep"
            /\ log.attrs[log.name] = get_runtime_id(c)
            /\ ActiveScopes(c) = 0 => log.attrs[log.name] = PyNone
            /\ ActiveScopes(c) > 0 =>
                   /\ log.attrs[log.name] = EnclosingId(c)
                   /\ log.attrs[log.name].t = "str"

\* a filter constructed with the attribute name "rid" has just stamped a
\* record in the work of a nested scope
C11_Witness ==
    /\ last[1].kind = "filter"
    /\ log.name = <<"r", "i", "d">>
    /\ TopPc(1) = "work" /\ Len(stack[1]) = 2
    /\ log.attrs[log.name] = PyStr(Top(1).rid)

\* C12: a guarded invocation that is not refused calls the wrapped work
\* exactly once, with the arguments of the call, and gives its caller the
\* value the work returned, unchanged
C12_WorkCalledOnceAndValueReturned ==
    \A c \in Ctx :
        /\ \A i \in DOMAIN stack[c] :
               LET f == stack[c][i]
               IN  /\ f.pc \in {"set_id", "set_depth", "call"} => f.calls = 0
                   /\ f.pc \in {"work", "reset_id", "reset_depth", "body"} =>
                          /\ f.calls = 1
                          /\ f.got = f.args
                   /\ f.outcome.kind = "return" => f.value = Value("tuple", f.args, PyStr(f.rid))
        /\ last[c].kind = "exited" =>
               /\ last[c].frame.calls = 1
               /\ last[c].frame.got = last[c].frame.args
               /\ last[c].frame.outcome.kind = "return" =>
                      /\ last[c].value = last[c].frame.value
                      /\ last[c].value = Value("tuple", last[c].frame.args, PyStr(last[c].frame.rid))
               /\ last[c].frame.outcome.kind = "coroutine" =>
                      last[c].value = Value("coroutine", last[c].frame.args, PyNone)
               /\ last[c].frame.outcome.kind = "raise" => last[c].value = NoValue

\* a nested invocation called with arguments has just returned the tuple of
\* these arguments and its identifier to the work that called it
C12_Witness ==
    /\ last[1].kind = "exited"
    /\ last[1].frame.args \in ArgInputs
    /\ last[1].value = Value("tuple", last[1].frame.args, PyStr(last[1].frame.rid))
    /\ TopPc(1) = "work"
    /\ exc[1] = NoError

\* the entry depth of the invocation f: the depth current at its call
EntryDepth(f) == IntOf(Current(f.pre).depth)

\* both entries of the innermost invocation of c are installed
Installed(c) == started[c] /\ TopPc(c) \in {"call", "work", "reset_id"}

\* C13 as stated: the depth an invocation installs is 0 when it starts a
\* root scope and its entry depth plus 1 when it is nested, so the current
\* depth is 0 while the work of a root scope executes
C13_RootInstallsDepthZero ==
    \A c \in Ctx :
        Installed(c) =>
            get_runtime_depth(c) =
                PyInt(IF Top(c).pre.id = Missing THEN 0 ELSE EntryDepth(Top(c)) + 1)

\* C13, amended: the depth an invocation installs is its entry depth plus 1
\* in both cases, which is 1 when it starts a root scope, so the current
\* depth is 1 while the work of a root scope executes
C13_InstalledDepthIsEntryDepthPlusOne ==
    \A c \in Ctx :
        Installed(c) =>
            /\ get_runtime_depth(c) = PyInt(EntryDepth(Top(c)) + 1)
            /\ Top(c).pre.id = Missing =>
                   /\ EntryDepth(Top(c)) = 0
                   /\ get_runtime_depth(c) = PyInt(1)
            /\ Top(c).pre.id # Missing => EntryDepth(Top(c)) >= 1

\* the work of a root scope executes and reads depth 1
C13_Witness ==
    /\ TopPc(1) = "work"
    /\ Top(1).pre.id = Missing
    /\ get_runtime_depth(1) = PyInt(1)

\* the identifier entry, the depth entry of the innermost invocation of c is
\* what it was at the call
IdRestored(c) == store[c].id = Top(c).pre.id

DepthRestored(c) == store[c].depth = Top(c).pre.depth

\* the innermost invocation of c is between the end of its work and its
\* return
Leaving(c) == started[c] /\ TopPc(c) \in {"reset_id", "reset_depth"}

\* C14 as stated: on exit the entries are restored in the reverse of the
\* order they were installed in, the depth first and the identifier last:
\* the identifier is never restored while the depth is still installed
C14_DepthRestoredFirst ==
    \A c \in Ctx : Leaving(c) => (IdRestored(c) => DepthRestored(c))

\* C14, amended: the identifier entry is installed first and the depth entry
\* second, and on exit they are restored in that same order, the identifier
\* first and the depth last, each to what it was at the call
C14_IdRestoredFirst ==
    \A c \in Ctx :
        /\ (started[c] /\ TopPc(c) = "set_id") => IdRestored(c) /\ DepthRestored(c)
        /\ (started[c] /\ TopPc(c) = "set_depth") => ~IdRestored(c) /\ DepthRestored(c)
        /\ Installed(c) => ~IdRestored(c) /\ ~DepthRestored(c)
        /\ Leaving(c) => (DepthRestored(c) => IdRestored(c))
        /\ (started[c] /\ TopPc(c) = "reset_depth") => IdRestored(c) /\ ~DepthRestored(c)
        /\ last[c].kind = "exited" => store[c] = last[c].pre

\* a nested invocation whose work raised has restored the identifier of the
\* enclosing scope and not yet the depth
C14_Witness ==
    /\ TopPc(1) = "reset_depth"
    /\ Top(1).outcome.kind = "raise"
    /\ Top(1).pre.id # Missing
    /\ get_runtime_id(1) = Top(1).pre.id
    /\ get_runtime_depth(1) = PyInt(EntryDepth(Top(1)) + 1)

\* rid is the identifier outer, the separator of cfg and one segment of cfg
Extends(rid, cfg, outer) ==
    \E seg \in Segments(IntOf(cfg.length), cfg.characters.s) : rid = outer \o cfg.sep.s \o seg

\* C15: the calls the work of one scope makes one after the other do not
\* leak into each other: whether the earlier call returned or raised, a
\* later one gets the identifier of the enclosing scope, the separator and
\* one segment, at the depth the earlier one had, and never an identifier
\* that extends the earlier one's; between the calls the enclosing work
\* reads its own identifier and depth
C15_SiblingsDoNotLeak ==
    \A c \in Ctx :
        /\ \A i \in DOMAIN stack[c] :
               (i > 1 /\ stack[c][i - 1].pc = "work" /\ stack[c][i - 1].kept.some) =>
                   LET f == stack[c][i]
                       outer == stack[c][i - 1]
                       cfg == guards[f.guard].cfg
                   IN  /\ Extends(f.rid, cfg, outer.rid)
                       /\ ~Extends(f.rid, cfg, outer.kept.rid)
                       /\ ~IsPrefixOf(outer.kept.rid \o cfg.sep.s, f.rid)
                       /\ f.depth = outer.kept.depth
                       /\ f.pre = [id |-> PyStr(outer.rid), depth |-> PyInt(f.depth)]
        /\ (Observable(c) /\ TopPc(c) = "work" /\ (last[c].kind = "exited" \/ Top(c).kept.some)) =>
               /\ get_runtime_id(c) = PyStr(Top(c).rid)
               /\ get_runtime_depth(c) = PyInt(EntryDepth(Top(c)) + 1)

\* the work of a scope made a call that raised, handled the error, and the
\* work of its next call executes under another extension of the scope's
\* identifier
C15_Witness ==
    /\ Len(stack[1]) = 2
    /\ stack[1][1].pc = "work" /\ stack[1][1].kept.some /\ stack[1][1].kept.raised
    /\ stack[1][2].pc = "work"
    /\ exc[1] = NoError
    /\ get_runtime_id(1) = PyStr(stack[1][2].rid)
    /\ stack[1][2].rid # stack[1][1].kept.rid

\* c was spawned while a scope was active in its parent
SpawnedInScope(c) == started[c] /\ base[c].scopes > 0

\* the invocations of c entered with no scope of c's own active
Outermost(c) == {i \in DOMAIN stack[c] : \A j \in WorkFrames(c) : j >= i}

RECURSIVE ScopeConfigs(_, _)
ScopeConfigs(c, n) ==
    IF n = 0 THEN <<>>
    ELSE IF stack[c][n].pc = "work"
         THEN Append(ScopeConfigs(c, n - 1), guards[stack[c][n].guard].cfg)
         ELSE ScopeConfigs(c, n - 1)

\* w is one random segment for each configuration of cfgs, in this order,
\* each but the first after the separator of its configuration
RECURSIVE IsChain(_, _)
IsChain(w, cfgs) ==
    IF cfgs = <<>> THEN w = <<>>
    ELSE LET cfg == cfgs[Len(cfgs)]
             sep == IF Len(cfgs) > 1 THEN cfg.sep.s ELSE <<>>
             n == Len(sep) + IntOf(cfg.length)
         IN  /\ Len(w) >= n
             /\ SubSeq(w, Len(w) - n + 1, Len(w) - IntOf(cfg.length)) = sep
             /\ \A k \in (Len(w) - IntOf(cfg.length) + 1)..Len(w) : w[k] \in Range(cfg.characters.s)
             /\ IsChain(SubSeq(w, 1, Len(w) - n), SubSeq(cfgs, 1, Len(cfgs) - 1))

\* the number of random segments of the identifier current in c: the n for
\* which it is the process id and static prefix of the outermost scope's
\* guard and then a chain of n segments of the active scopes' guards; -1 when
\* it is no such chain
SegmentCount(c) ==
    LET cfgs == ScopeConfigs(c, Len(stack[c]))
        rid == get_runtime_id(c).s
        head == IF cfgs = <<>> THEN <<>> ELSE RootPrefix(cfgs[1], pid)
    IN  IF /\ IsPrefixOf(head, rid)
           /\ IsChain(SubSeq(rid, Len(head) + 1, Len(rid)), cfgs)
        THEN Len(cfgs) ELSE -1

\* C17: wherever application code can read the context, outside every scope
\* or in the work of an invocation, the current depth is the number of scopes
\* active in that context and the number of random segments of the current
\* identifier, and the identifier is absent exactly when the depth is 0
C17_DepthCountsScopesAndSegments ==
    \A c \in Ctx :
        Observable(c) =>
            /\ IntOf(get_runtime_depth(c)) = ActiveScopes(c)
            /\ get_runtime_id(c) = PyNone <=> IntOf(get_runtime_depth(c)) = 0
            /\ get_runtime_id(c) # PyNone =>
                   /\ SegmentCount(c) = IntOf(get_runtime_depth(c))
                   /\ SegmentCount(c) = Cardinality(WorkFrames(c))

\* the work of a nested scope executes at depth 2 under an identifier of two
\* segments, the root one after a static prefix
C17_Witness ==
    /\ TopPc(1) = "work" /\ Len(stack[1]) = 2 /\ stack[1][1].pc = "work"
    /\ guards[stack[1][1].guard].cfg.prefix = PyStr(<<"p">>)
    /\ get_runtime_depth(1) = PyInt(2)
    /\ SegmentCount(1) = 2

\* the maximum depth of the guard of the invocation f
OwnMaxDepth(f) == IntOf(guards[f.guard].cfg.max_depth)

\* C18: the depth check looks at the maximum depth of the guard being
\* entered only: a nested entry is refused exactly when the current depth has
\* reached that guard's own maximum, so while work executes the current
\* depth is at least 1 and at most the maximum depth of the innermost active
\* guard, whatever the maximum depth of the guards around it
C18_DepthCheckUsesOwnMaxDepth ==
    \A c \in Ctx :
        /\ last[c].kind = "refused" =>
               /\ IntOf(Current(last[c].pre).depth) >= IntOf(guards[last[c].guard].cfg.max_depth)
               /\ exc[c].max_depth = IntOf(guards[last[c].guard].cfg.max_depth)
               /\ exc[c].depth = IntOf(Current(last[c].pre).depth)
        /\ \A i \in DOMAIN stack[c] :
               /\ stack[c][i].depth < OwnMaxDepth(stack[c][i])
               /\ stack[c][i].pre.id # Missing => EntryDepth(stack[c][i]) < OwnMaxDepth(stack[c][i])
        /\ (started[c] /\ TopPc(c) = "work") =>
               /\ IntOf(get_runtime_depth(c)) >= 1
               /\ IntOf(get_runtime_depth(c)) <= OwnMaxDepth(Top(c))

\* the work of a guard of maximum depth 2 executes at depth 2 inside the
\* work of a guard of maximum depth 1
C18_Witness ==
    /\ TopPc(1) = "work" /\ Len(stack[1]) = 2 /\ stack[1][1].pc = "work"
    /\ OwnMaxDepth(stack[1][1]) = 1
    /\ OwnMaxDepth(stack[1][2]) = 2
    /\ get_runtime_depth(1) = PyInt(2)


====
